---- MODULE Spec2Model ----
(***************************************************************************)
(* Sentence boundary detection through a seq2seq translation model         *)
(* (argostranslate/sbd.py): detect_sentence, process_seq2seq_sbd and       *)
(* parse_fewshot_response.                                                 *)
(*                                                                         *)
(* Python strings are sequences of one-character strings.  Python indices  *)
(* are 0-based and are kept 0-based in every operator that returns one.    *)
(* A similarity ratio is the pair <<numerator, denominator>> of the        *)
(* quotient difflib computes in floating point; for the string lengths     *)
(* used here two distinct quotients never round to the same double, so     *)
(* comparing the fractions exactly is comparing the floats.                *)
(***************************************************************************)
EXTENDS Integers, Sequences, FiniteSets, TLC

(***************************************************************************)
(* Bounds of the model.                                                    *)
(***************************************************************************)
MaxTextLen == 3
MaxGuessLen == 2
MaxSegLen == 1
MaxSegments == 3

(***************************************************************************)
(* Module-level constants of sbd.py.                                       *)
(***************************************************************************)
DETECT_SENTENCE_BOUNDARIES_TOKEN ==
    <<"<", "d", "e", "t", "e", "c", "t", "-", "s", "e", "n", "t", "e", "n",
      "c", "e", "-", "b", "o", "u", "n", "d", "a", "r", "i", "e", "s", ">">>

SENTENCE_BOUNDARY_TOKEN ==
    <<"<", "s", "e", "n", "t", "e", "n", "c", "e", "-", "b", "o", "u", "n",
      "d", "a", "r", "y", ">">>

FewshotBoundaryLength == 10

FEWSHOT_BOUNDARY_TOKEN == [i \in 1..FewshotBoundaryLength |-> "-"]

DefaultSentenceGuessLength == 150

NotFound == -1

(***************************************************************************)
(* Python string primitives.                                               *)
(***************************************************************************)
Min(x, y) == IF x <= y THEN x ELSE y

Max(x, y) == IF x >= y THEN x ELSE y

\* s[:n]
Prefix(s, n) ==
    IF n >= 0 THEN SubSeq(s, 1, Min(n, Len(s)))
              ELSE SubSeq(s, 1, Max(Len(s) + n, 0))

\* s[n:] for n >= 0
Suffix(s, n) == SubSeq(s, Min(n, Len(s)) + 1, Len(s))

\* does sub occur in s at 0-based offset i
OccursAt(s, sub, i) ==
    /\ i >= 0
    /\ i + Len(sub) <= Len(s)
    /\ SubSeq(s, i + 1, i + Len(sub)) = sub

\* s.find(sub): lowest offset of an occurrence, -1 when there is none
Find(s, sub) ==
    LET hits == {i \in 0..Len(s) : OccursAt(s, sub, i)}
    IN  IF hits = {} THEN -1
        ELSE CHOOSE i \in hits : \A j \in hits : i <= j

\* s.split(sep) for a non-empty sep
RECURSIVE Split(_, _)
Split(s, sep) ==
    LET idx == Find(s, sep)
    IN  IF idx = -1 THEN <<s>>
        ELSE <<Prefix(s, idx)>> \o Split(Suffix(s, idx + Len(sep)), sep)

\* range(n)
range(n) == 0..(n - 1)

(***************************************************************************)
(* difflib.SequenceMatcher(None, a, b).ratio().  No junk predicate is set  *)
(* and the automatic junk heuristic only applies to a second sequence of   *)
(* 200 or more elements, which no string of this model reaches.            *)
(***************************************************************************)
\* length of the common run of a[i:ahi] and b[j:bhi] starting at (i, j)
RECURSIVE RunLen(_, _, _, _, _, _)
RunLen(a, b, i, j, ahi, bhi) ==
    IF i < ahi /\ j < bhi /\ a[i + 1] = b[j + 1]
    THEN 1 + RunLen(a, b, i + 1, j + 1, ahi, bhi)
    ELSE 0

\* find_longest_match(alo, ahi, blo, bhi): the longest matching block, the
\* one starting earliest in a and, among those, earliest in b
find_longest_match(a, b, alo, ahi, blo, bhi) ==
    LET pairs == (alo..(ahi - 1)) \X (blo..(bhi - 1))
        len   == [p \in pairs |-> RunLen(a, b, p[1], p[2], ahi, bhi)]
        sizes == {len[p] : p \in pairs} \cup {0}
        k     == CHOOSE m \in sizes : \A n \in sizes : n <= m
        is    == {p[1] : p \in {q \in pairs : len[q] = k}}
        i     == CHOOSE x \in is : \A y \in is : x <= y
        js    == {p[2] : p \in {q \in pairs : len[q] = k /\ q[1] = i}}
        j     == CHOOSE x \in js : \A y \in js : x <= y
    IN  IF k = 0 THEN <<alo, blo, 0>> ELSE <<i, j, k>>

\* total size of get_matching_blocks() restricted to a[alo:ahi], b[blo:bhi]
RECURSIVE MatchedSize(_, _, _, _, _, _)
MatchedSize(a, b, alo, ahi, blo, bhi) ==
    IF alo >= ahi \/ blo >= bhi THEN 0
    ELSE LET m == find_longest_match(a, b, alo, ahi, blo, bhi)
         IN  IF m[3] = 0 THEN 0
             ELSE m[3]
                  + MatchedSize(a, b, alo, m[1], blo, m[2])
                  + MatchedSize(a, b, m[1] + m[3], ahi, m[2] + m[3], bhi)

\* ratio(): 2.0 * matches / length, and 1.0 when both strings are empty
Ratio(a, b) ==
    LET length == Len(a) + Len(b)
    IN  IF length > 0
        THEN <<2 * MatchedSize(a, b, 0, Len(a), 0, Len(b)), length>>
        ELSE <<1, 1>>

\* r > s on ratios
RatioGT(r, s) == r[1] * s[2] > s[1] * r[2]

RatioEQ(r, s) == r[1] * s[2] = s[1] * r[2]

RatioLE(r, s) == r[1] * s[2] <= s[1] * r[2]

ZeroRatio == <<0, 1>>

(***************************************************************************)
(* process_seq2seq_sbd.  A Python value is a record: kind "int" with the   *)
(* integer in int, kind "str" with the string in str, kind "none" for None.*)
(* compared counts the SequenceMatcher comparisons the call made.          *)
(***************************************************************************)
IntValue(n) == [kind |-> "int", int |-> n, str |-> <<>>]

StrValue(s) == [kind |-> "str", int |-> 0, str |-> s]

NoneValue == [kind |-> "none", int |-> 0, str |-> <<>>]

\* candidate_sentence with the slice one character too long: input_text[:i + 1]
candidate_sentence_long(input_text, i) == Prefix(input_text, i + 1)

\* candidate_sentence = input_text[:i]
candidate_sentence(input_text, i) == Prefix(input_text, i)

\* IsBetter with >= in place of >: a later prefix of equal ratio wins
IsBetter_ge(best_index, ratio, best_ratio) ==
    best_index.kind = "none" \/ ~RatioGT(best_ratio, ratio)

\* if best_index is None or ratio > best_ratio
IsBetter(best_index, ratio, best_ratio) ==
    best_index.kind = "none" \/ RatioGT(ratio, best_ratio)

\* the loop body for i = st.i, and the step to the next i
LoopBody(input_text, guess, st) ==
    LET ratio == Ratio(candidate_sentence(input_text, st.i), guess)
    IN  IF IsBetter(st.best_index, ratio, st.best_ratio)
        THEN [i |-> st.i + 1, best_index |-> IntValue(st.i),
              best_ratio |-> ratio, compared |-> st.compared + 1]
        ELSE [st EXCEPT !.i = @ + 1, !.compared = @ + 1]

\* the indices the loop visits
LoopIndices(input_text) == range(Len(input_text))

\* for i in range(len(input_text)), from the loop state st on
RECURSIVE AlignmentSearch(_, _, _)
AlignmentSearch(input_text, guess, st) ==
    IF st.i \in LoopIndices(input_text)
    THEN AlignmentSearch(input_text, guess, LoopBody(input_text, guess, st))
    ELSE st

\* sbd_translated_guess[:sbd_translated_guess_index]
TranslatedGuess(sbd_translated_guess) ==
    Prefix(sbd_translated_guess,
           Find(sbd_translated_guess, SENTENCE_BOUNDARY_TOKEN))

\* process_seq2seq_sbd testing the index for truth instead of against -1:
\* -1 is true, so a guess without the marker is searched for, cut by [:-1]
process_seq2seq_sbd_truthy(input_text, sbd_translated_guess) ==
    LET sbd_translated_guess_index ==
            Find(sbd_translated_guess, SENTENCE_BOUNDARY_TOKEN)
    IN  IF sbd_translated_guess_index # 0
        THEN LET st == AlignmentSearch(input_text,
                           TranslatedGuess(sbd_translated_guess),
                           [i |-> 0, best_index |-> NoneValue,
                            best_ratio |-> ZeroRatio, compared |-> 0])
             IN  [ret |-> st.best_index, compared |-> st.compared]
        ELSE [ret |-> IntValue(NotFound), compared |-> 0]

process_seq2seq_sbd(input_text, sbd_translated_guess) ==
    LET sbd_translated_guess_index ==
            Find(sbd_translated_guess, SENTENCE_BOUNDARY_TOKEN)
    IN  IF sbd_translated_guess_index # -1
        THEN LET st == AlignmentSearch(input_text,
                           TranslatedGuess(sbd_translated_guess),
                           [i |-> 0, best_index |-> NoneValue,
                            best_ratio |-> ZeroRatio, compared |-> 0])
             IN  [ret |-> st.best_index, compared |-> st.compared]
        ELSE [ret |-> IntValue(NotFound), compared |-> 0]

(***************************************************************************)
(* parse_fewshot_response.                                                 *)
(***************************************************************************)
\* AnswerSegment taking response[-1], the last segment
AnswerSegment_last(response) == response[Len(response)]

\* response[-2] of the separator split
AnswerSegment(response) == response[Len(response) - 1]

\* LastLine taking response[0], the first line
LastLine_first(lines) == lines[1]

\* response[-1] of the newline split
LastLine(lines) == lines[Len(lines)]

parse_fewshot_response(response_text) ==
    LET response == Split(response_text, FEWSHOT_BOUNDARY_TOKEN)
    IN  IF Len(response) < 2 THEN NoneValue
        ELSE LET lines == Split(AnswerSegment(response), <<"\n">>)
             IN  IF Len(lines) < 2 THEN NoneValue
                 ELSE StrValue(LastLine(lines))

(***************************************************************************)
(* detect_sentence: the argument handed to sbd_translation.translate.      *)
(***************************************************************************)
sentence_guess(input_text, sentence_guess_length) ==
    Prefix(input_text, sentence_guess_length)

\* TranslateArgument without the truncation to the guess window
TranslateArgument_whole(input_text, sentence_guess_length) ==
    DETECT_SENTENCE_BOUNDARIES_TOKEN \o input_text

TranslateArgument(input_text, sentence_guess_length) ==
    DETECT_SENTENCE_BOUNDARIES_TOKEN
        \o sentence_guess(input_text, sentence_guess_length)

\* the text detect_sentence aligns the translated guess against
LocateText(input_text, sentence_guess_length) == input_text

(***************************************************************************)
(* Inputs.                                                                 *)
(***************************************************************************)
StringsUpTo(alphabet, n) == UNION {[1..k -> alphabet] : k \in 0..n}

Texts == StringsUpTo({"a", "b"}, MaxTextLen)

\* a marker with its last character missing
BrokenMarker == Prefix(SENTENCE_BOUNDARY_TOKEN, Len(SENTENCE_BOUNDARY_TOKEN) - 1)

Tails ==
    { <<>>, BrokenMarker, SENTENCE_BOUNDARY_TOKEN,
      SENTENCE_BOUNDARY_TOKEN \o <<"a">>,
      SENTENCE_BOUNDARY_TOKEN \o <<"b">> \o SENTENCE_BOUNDARY_TOKEN }

Guesses ==
    {pre \o tail : pre \in StringsUpTo({"a", "b"}, MaxGuessLen), tail \in Tails}

ExampleText ==
    <<"I", " ", "w", "a", "l", "k", "e", "d", " ", "d", "o", "w", "n", " ",
      "t", "o", " ", "t", "h", "e", " ", "r", "i", "v", "e", "r", ".", " ",
      "T", "h", "e", "n", " ", "I", " ", "w", "e", "n", "t", " ", "t", "o",
      " ", "t", "h", "e", " ", "s", "t", "o", "r", "e", ".">>

ExampleFirstSentence ==
    <<"I", " ", "w", "a", "l", "k", "e", "d", " ", "d", "o", "w", "n", " ",
      "t", "o", " ", "t", "h", "e", " ", "r", "i", "v", "e", "r", ".">>

ExampleTranslation ==
    ExampleFirstSentence \o SENTENCE_BOUNDARY_TOKEN
        \o <<" ", "T", "h", "e", "n", " ", "I", " ", "w", "e", "n", "t">>

\* a translation capability: it raises, or it returns out
Returning(out) == [raises |-> FALSE, out |-> out]

Raising == [raises |-> TRUE, out |-> <<>>]

Translations == {Returning(g) : g \in Guesses} \cup {Raising}

GuessLengths == (0..MaxTextLen) \cup {DefaultSentenceGuessLength}

DetectInputs ==
    (Texts \X Translations \X GuessLengths)
        \cup {<<ExampleText, Returning(ExampleTranslation),
                DefaultSentenceGuessLength>>}

\* a text with two prefixes of equal, highest ratio against the guess "ab"
TieText == <<"a", "a", "a", "b", "a">>

TieGuess == <<"a", "b">> \o SENTENCE_BOUNDARY_TOKEN

LocateInputs ==
    (Texts \X Guesses)
        \cup {<<ExampleText, ExampleTranslation>>, <<TieText, TieGuess>>}

\* segments of a response: short texts, a line break before or after a text,
\* and a dash that lengthens a neighbouring separator
Segments ==
    StringsUpTo({"a", "\n"}, MaxSegLen)
        \cup {<<"\n", "a">>, <<"a", "\n">>, <<"-">>}

RECURSIVE Join(_, _)
Join(segs, sep) ==
    IF Len(segs) = 1 THEN segs[1]
    ELSE segs[1] \o sep \o Join(Tail(segs), sep)

ExampleAnswer ==
    <<"a", "c", "t", "u", "a", "l", " ", "a", "n", "s", "w", "e", "r">>

ExampleResponse ==
    <<"<", "e", "x", "a", "m", "p", "l", "e", "s", ">", "\n">>
        \o FEWSHOT_BOUNDARY_TOKEN
        \o <<"\n", "a", "n", "s", "w", "e", "r", " ", "l", "i", "n", "e",
             " ", "1", "\n">>
        \o ExampleAnswer

Responses ==
    {Join(segs, FEWSHOT_BOUNDARY_TOKEN) :
        segs \in UNION {[1..k -> Segments] : k \in 1..MaxSegments}}
        \cup {ExampleResponse}

(***************************************************************************)
(* State: one call of one of the three functions at a time.                *)
(***************************************************************************)
VARIABLES
    pc,                     \* "idle", "translating", "returned", "raised"
    fn,                     \* the function called
    input_text,
    sentence_guess_length,
    sbd_translation,        \* the translation capability of the call
    translate_log,          \* arguments of the translate invocations so far
    response_text,          \* sbd_translated_guess, or the few-shot response
    ret,                    \* the value returned
    compared                \* SequenceMatcher comparisons made by the call

vars == <<pc, fn, input_text, sentence_guess_length, sbd_translation,
          translate_log, response_text, ret, compared>>

Pending == [kind |-> "pending", int |-> 0, str |-> <<>>]

Init ==
    /\ pc = "idle"
    /\ fn = "none"
    /\ input_text = <<>>
    /\ sentence_guess_length = DefaultSentenceGuessLength
    /\ sbd_translation = Raising
    /\ translate_log = <<>>
    /\ response_text = <<>>
    /\ ret = Pending
    /\ compared = 0

\* process_seq2seq_sbd(text, guess)
CallProcessSeq2seqSbd(text, guess) ==
    /\ pc = "idle"
    /\ pc' = "returned"
    /\ fn' = "process_seq2seq_sbd"
    /\ input_text' = text
    /\ response_text' = guess
    /\ ret' = process_seq2seq_sbd(text, guess).ret
    /\ compared' = process_seq2seq_sbd(text, guess).compared
    /\ UNCHANGED <<sentence_guess_length, sbd_translation, translate_log>>

\* parse_fewshot_response(raw)
CallParseFewshotResponse(raw) ==
    /\ pc = "idle"
    /\ pc' = "returned"
    /\ fn' = "parse_fewshot_response"
    /\ response_text' = raw
    /\ ret' = parse_fewshot_response(raw)
    /\ UNCHANGED <<input_text, sentence_guess_length, sbd_translation,
                   translate_log, compared>>

\* detect_sentence(text, translation, n) up to the translate invocation
CallDetectSentence(text, translation, n) ==
    /\ pc = "idle"
    /\ pc' = "translating"
    /\ fn' = "detect_sentence"
    /\ input_text' = text
    /\ sentence_guess_length' = n
    /\ sbd_translation' = translation
    /\ translate_log' = Append(translate_log, TranslateArgument(text, n))
    /\ UNCHANGED <<response_text, ret, compared>>

\* translate returns: detect_sentence returns what process_seq2seq_sbd does
TranslateReturns ==
    /\ pc = "translating"
    /\ ~sbd_translation.raises
    /\ LET located ==
               process_seq2seq_sbd(
                   LocateText(input_text, sentence_guess_length),
                   sbd_translation.out)
       IN  /\ ret' = located.ret
           /\ compared' = located.compared
    /\ response_text' = sbd_translation.out
    /\ pc' = "returned"
    /\ UNCHANGED <<fn, input_text, sentence_guess_length, sbd_translation,
                   translate_log>>

\* translate raises: nothing catches it in detect_sentence
TranslateRaises ==
    /\ pc = "translating"
    /\ sbd_translation.raises
    /\ pc' = "raised"
    /\ ret' = [kind |-> "raised", int |-> 0, str |-> <<>>]
    /\ UNCHANGED <<fn, input_text, sentence_guess_length, sbd_translation,
                   translate_log, response_text, compared>>

\* the caller is back in control; nothing of the call is kept
Finish ==
    /\ pc \in {"returned", "raised"}
    /\ pc' = "idle"
    /\ fn' = "none"
    /\ input_text' = <<>>
    /\ sentence_guess_length' = DefaultSentenceGuessLength
    /\ sbd_translation' = Raising
    /\ translate_log' = <<>>
    /\ response_text' = <<>>
    /\ ret' = Pending
    /\ compared' = 0

Next ==
    \/ \E in \in LocateInputs : CallProcessSeq2seqSbd(in[1], in[2])
    \/ \E raw \in Responses : CallParseFewshotResponse(raw)
    \/ \E in \in DetectInputs : CallDetectSentence(in[1], in[2], in[3])
    \/ TranslateReturns
    \/ TranslateRaises
    \/ Finish

Spec == Init /\ [][Next]_vars

TypeOK ==
    /\ pc \in {"idle", "translating", "returned", "raised"}
    /\ fn \in {"none", "process_seq2seq_sbd", "parse_fewshot_response",
               "detect_sentence"}
    /\ ret.kind \in {"pending", "int", "str", "none", "raised"}
    /\ compared \in Nat

(***************************************************************************)
(* Vocabulary of the properties.                                           *)
(***************************************************************************)
\* process_seq2seq_sbd has returned to its caller
Located == pc = "returned" /\ fn = "process_seq2seq_sbd"

\* detect_sentence has returned to its caller
Detected == pc = "returned" /\ fn = "detect_sentence"

Parsed == pc = "returned" /\ fn = "parse_fewshot_response"

MarkerPresent ==
    \E i \in 0..Len(response_text) :
        OccursAt(response_text, SENTENCE_BOUNDARY_TOKEN, i)

\* the guess text before the first marker
GuessBeforeMarker ==
    LET first == CHOOSE i \in 0..Len(response_text) :
                    /\ OccursAt(response_text, SENTENCE_BOUNDARY_TOKEN, i)
                    /\ \A j \in 0..(i - 1) :
                          ~OccursAt(response_text, SENTENCE_BOUNDARY_TOKEN, j)
    IN  SubSeq(response_text, 1, first)

\* T[0:i] for 0 <= i <= len(T)
FirstChars(T, i) == SubSeq(T, 1, i)

PrefixRatio(i) == Ratio(FirstChars(input_text, i), GuessBeforeMarker)

IsIndex(v) == v.kind = "int" /\ v.int >= 0

\* C1: identity alignment.  When the guess is T[0:k] followed by the marker
\* and any suffix, 0 <= k <= len(T), process_seq2seq_sbd(T, guess) returns k,
\* k = len(T) included.
C1_IdentityAlignment ==
    (/\ Located
     /\ MarkerPresent
     /\ Len(GuessBeforeMarker) <= Len(input_text)
     /\ GuessBeforeMarker = FirstChars(input_text, Len(GuessBeforeMarker)))
    => ret = IntValue(Len(GuessBeforeMarker))

\* C2: empty input.  process_seq2seq_sbd("", guess) returns the integer -1
\* for every guess, with or without the marker.
C2_EmptyInput ==
    (Located /\ input_text = <<>>) => ret = IntValue(-1)

\* C3: sentinel correctness.  For a non-empty text and a guess without the
\* marker, process_seq2seq_sbd returns -1 and makes no similarity comparison.
C3_SentinelCorrectness ==
    (Located /\ input_text # <<>> /\ ~MarkerPresent)
    => (ret = IntValue(-1) /\ compared = 0)

\* C3 witness: a non-empty text and a guess holding all of the marker but
\* its last character; -1 was returned.
C3_Witness ==
    /\ Located
    /\ Len(input_text) = MaxTextLen
    /\ ~MarkerPresent
    /\ \E i \in 0..Len(response_text) : OccursAt(response_text, BrokenMarker, i)
    /\ ret = IntValue(-1)

\* C4: bounds invariant.  For every text T, the empty one included, and every
\* guess containing the marker, the value returned by process_seq2seq_sbd
\* and by detect_sentence is an integer, -1 or within 0..len(T).
C4_BoundsInvariant ==
    ((Located \/ Detected) /\ MarkerPresent)
    => (/\ ret.kind = "int"
        /\ (ret.int = -1 \/ (0 <= ret.int /\ ret.int <= Len(input_text))))

\* C5: detect_sentence is one linear pipeline.  translate is invoked exactly
\* once, on the control token followed by the first sentence_guess_length
\* characters of the text; a failure of translate reaches the caller; on
\* success the value returned is process_seq2seq_sbd(text, raw response).
C5_LinearPipeline ==
    fn = "detect_sentence"
    => (/\ translate_log =
               << DETECT_SENTENCE_BOUNDARIES_TOKEN
                    \o FirstChars(input_text,
                           Min(sentence_guess_length, Len(input_text))) >>
        /\ (pc = "raised" => (sbd_translation.raises /\ ret.kind = "raised"))
        /\ (pc = "returned"
              => (/\ ~sbd_translation.raises
                  /\ response_text = sbd_translation.out
                  /\ ret = process_seq2seq_sbd(input_text,
                                               sbd_translation.out).ret)))

\* C5 witness: detect_sentence returned an index for a text longer than the
\* guess window, after one translate invocation.
C5_Witness ==
    /\ Detected
    /\ 0 < sentence_guess_length
    /\ sentence_guess_length < Len(input_text)
    /\ Len(translate_log) = 1
    /\ IsIndex(ret)
    /\ ret.int > 0

\* C6: tie-break.  When process_seq2seq_sbd returns an index r, every index
\* i < r has a similarity ratio strictly below that of r.
C6_TieBreak ==
    (Located /\ IsIndex(ret))
    => \A i \in 0..(ret.int - 1) :
           RatioGT(PrefixRatio(ret.int), PrefixRatio(i))

\* C6 witness: a later prefix ties with the returned one on a positive ratio.
C6_Witness ==
    /\ Located
    /\ IsIndex(ret)
    /\ RatioGT(PrefixRatio(ret.int), ZeroRatio)
    /\ \E j \in (ret.int + 1)..(Len(input_text) - 1) :
           RatioEQ(PrefixRatio(j), PrefixRatio(ret.int))

ExampleCall ==
    /\ Detected
    /\ input_text = ExampleText
    /\ sentence_guess_length = DefaultSentenceGuessLength
    /\ sbd_translation = Returning(ExampleTranslation)

\* C7 as stated: the end-to-end example returns index 28.
C7_ExampleReturns28 == ExampleCall => ret = IntValue(28)

\* C7 amended: the end-to-end example returns index 27, the offset right
\* after "I walked down to the river." in the text.
C7_ExampleReturns27 ==
    ExampleCall
    => (/\ ret = IntValue(27)
        /\ FirstChars(input_text, ret.int) = ExampleFirstSentence)

\* C7 witness: the example call has returned an index.
C7_Witness == ExampleCall /\ IsIndex(ret)

\* C8: parse_fewshot_response.  The result is None exactly when the response
\* has fewer than 2 separator-delimited segments or the second-to-last one
\* has no newline; otherwise it is the text after the last newline of the
\* second-to-last segment.  Nothing is raised.
C8_ParseRule ==
    Parsed
    => LET segs == Split(response_text, FEWSHOT_BOUNDARY_TOKEN)
           seg  == segs[Len(segs) - 1]
           nls  == {i \in 1..Len(seg) : seg[i] = "\n"}
           last == CHOOSE i \in nls : \A j \in nls : j <= i
       IN  /\ Join(segs, FEWSHOT_BOUNDARY_TOKEN) = response_text
           /\ ret.kind \in {"none", "str"}
           /\ ret.kind = "none" <=> (Len(segs) < 2 \/ nls = {})
           /\ ret.kind = "str" => ret = StrValue(SubSeq(seg, last + 1, Len(seg)))

\* C8 witness: three segments, the answer is a non-empty line of the middle
\* one and the last segment holds another text.
C8_Witness ==
    /\ Parsed
    /\ LET segs == Split(response_text, FEWSHOT_BOUNDARY_TOKEN)
       IN  /\ Len(segs) = 3
           /\ ret.kind = "str"
           /\ ret.str # <<>>
           /\ segs[3] # segs[2]
           /\ segs[1] # segs[2]

ExampleParse == Parsed /\ response_text = ExampleResponse

\* C9 as stated: the parsing example yields "actual answer".
C9_ExampleYieldsAnswer == ExampleParse => ret = StrValue(ExampleAnswer)

\* C9 amended: the parsing example yields the empty string, the last line of
\* its second-to-last segment "<examples>\n".
C9_ExampleYieldsEmpty == ExampleParse => ret = StrValue(<<>>)

\* C9 witness: the example response was parsed into a string.
C9_Witness ==
    /\ ExampleParse
    /\ Len(Split(response_text, FEWSHOT_BOUNDARY_TOKEN)) = 2
    /\ ret.kind = "str"

\* C10: the search covers every prefix length.  With the marker present and
\* T non-empty, the index returned maximizes the similarity ratio over all
\* i in 0..len(T), len(T) included.
C10_EveryPrefixLength ==
    (Located /\ MarkerPresent /\ input_text # <<>>)
    => (/\ IsIndex(ret)
        /\ \A i \in 0..Len(input_text) :
               RatioLE(PrefixRatio(i), PrefixRatio(ret.int)))

====
